---- MODULE Spec2Model ----
(***************************************************************************)
(* The caching proxy layer of solar-sim (backend/apps/proxy/views.py):     *)
(* three request handlers (Overpass, Climate, Canopy) over one shared      *)
(* key-value cache with per-entry TTL and an upstream HTTP client.         *)
(*                                                                         *)
(* A request is handled in up to three atomic steps, the points at which   *)
(* another request can interleave:                                         *)
(*   Begin    validation, cache key, (local tile check), cache.get         *)
(*   Upstream the single outbound HTTP call and its exception mapping      *)
(*   Store    cache.set and the 200 response                               *)
(* Time is in seconds.  A payload is abstracted to its Python len() and a  *)
(* content tag: [len |-> n, ver |-> tag].                                  *)
(***************************************************************************)
EXTENDS Integers, Sequences, FiniteSets, TLC

VARIABLES now, cache, nsets, reqs

vars == <<now, cache, nsets, reqs>>

(***************************************************************************)
(* Bounds of the model.                                                    *)
(***************************************************************************)
MaxRequests == 2

Reqs == 1..MaxRequests

(***************************************************************************)
(* Program constants.                                                      *)
(***************************************************************************)
CACHE_TTL_OVERPASS == 60 * 60 * 24 * 7
CACHE_TTL_CLIMATE == 60 * 60 * 24 * 30
CACHE_TTL_CANOPY == 60 * 60 * 24 * 365
MaxCachedTileBytes == 25 * 1024 * 1024

HTTP_200_OK == 200
HTTP_400_BAD_REQUEST == 400
HTTP_404_NOT_FOUND == 404
HTTP_500_INTERNAL_SERVER_ERROR == 500
HTTP_502_BAD_GATEWAY == 502
HTTP_504_GATEWAY_TIMEOUT == 504

(***************************************************************************)
(* Python values.                                                          *)
(***************************************************************************)
PyNone == [len |-> 0, ver |-> "None"]

\* bool(v) of a container (dict, list, bytes): false for None and for len 0.
Truthy(v) == v # PyNone /\ v.len > 0

\* dict.get(key, default)
DictGet(d, k, default) == IF k \in DOMAIN d THEN d[k] ELSE default

RECURSIVE Join(_)
\* "".join(chars)
Join(s) == IF s = <<>> THEN "" ELSE s[1] \o Join(Tail(s))

(***************************************************************************)
(* The cache store: key |-> [value, expires].  An entry whose expiry time  *)
(* has been reached is gone.                                               *)
(***************************************************************************)
Present(c, k, t) == k \in DOMAIN c /\ c[k].expires > t

\* cache.get(key): the value, or None when absent or expired.
CacheGet(c, k, t) == IF Present(c, k, t) THEN c[k].value ELSE PyNone

\* A set that keeps an existing entry (cache.add), used as a faulty variant.
CacheSet_KeepExisting(c, k, v, ttl, t) ==
    IF Present(c, k, t) THEN c
    ELSE [x \in DOMAIN c \cup {k} |->
            IF x = k THEN [value |-> v, expires |-> t + ttl] ELSE c[x]]

\* cache.set(key, value, timeout): overwrites, expiry fixed at write time.
CacheSet(c, k, v, ttl, t) ==
    [x \in DOMAIN c \cup {k} |->
        IF x = k THEN [value |-> v, expires |-> t + ttl] ELSE c[x]]

\* TTL eviction performed by the store as time passes.
Evict(c, t) == [k \in {x \in DOMAIN c : c[x].expires > t} |-> c[k]]

(***************************************************************************)
(* Overpass: validation and cache key.                                     *)
(***************************************************************************)
\* hashlib.sha256(query.encode()).hexdigest()[:16], tabulated from the real
\* digests of the queries the model sends (and of the empty string).
Sha256Hex16(q) ==
    CASE q = "a" -> "ca978112ca1bbdca"
      [] q = "b" -> "3e23e8160039594a"
      [] q = "" -> "e3b0c44298fc1c14"

\* query = request.data.get("query", "")
OverpassQuery(data) == DictGet(data, "query", "")

\* A validation that lets the empty query through (faulty variant).
OverpassValid_AcceptsEmpty(data) == "query" \in DOMAIN data

\* `if not query` rejects the missing and the empty query.
OverpassValid(data) == OverpassQuery(data) # ""

\* A key that drops the digest (faulty variant).
OverpassKey_NoDigest(query) == "overpass:"

\* cache_key = f"overpass:{sha256(query)[:16]}"
OverpassKey(query) == "overpass:" \o Sha256Hex16(query)

(***************************************************************************)
(* Climate: float parsing, rounding, formatting, cache key.                *)
(* A parameter is a sequence of characters.  A Python float is an IEEE 754   *)
(* binary64 value, written [cls, neg, int, frac]: cls is "fin", "inf" or    *)
(* "nan", neg the sign bit, and for a finite value int and frac are the     *)
(* bits of its magnitude before and after the binary point (int without     *)
(* leading zeros, frac without trailing zeros), so that two records are     *)
(* equal exactly when the floats are the same float.  Decimal numerals are  *)
(* sequences of digits 0..9 and are worked on digit by digit.               *)
(* A character is a one-character string.  A TLA+ string holds the         *)
(* characters up to U+00FF; a character beyond them is written as the      *)
(* string of its code point, "U+0661" for ARABIC-INDIC DIGIT ONE.          *)
(***************************************************************************)
HexDigits ==
    <<"0", "1", "2", "3", "4", "5", "6", "7", "8", "9", "A", "B", "C", "D", "E", "F">>

\* The hexadecimal digit of n at the place 16^k.
Hex(n, k) == HexDigits[((n \div (16 ^ k)) % 16) + 1]

\* The character of the code point n, for n above 255: U+ and four
\* hexadecimal digits, five from U+10000 on.
CodePoint(n) ==
    "U+" \o (IF n < 65536 THEN "" ELSE Hex(n, 4))
         \o Hex(n, 3) \o Hex(n, 2) \o Hex(n, 1) \o Hex(n, 0)

\* The characters U+007F to U+00FF.
Latin1High ==
    {"", "", "", "", "", "", "", "", "", "", "", "",
     "", "", "", "", "", "", "", "", "", "", "", "",
     "", "", "", "", "", "", "", "", "", " ", "¡", "¢",
     "£", "¤", "¥", "¦", "§", "¨", "©", "ª", "«", "¬", "­", "®",
     "¯", "°", "±", "²", "³", "´", "µ", "¶", "·", "¸", "¹", "º",
     "»", "¼", "½", "¾", "¿", "À", "Á", "Â", "Ã", "Ä", "Å", "Æ",
     "Ç", "È", "É", "Ê", "Ë", "Ì", "Í", "Î", "Ï", "Ð", "Ñ", "Ò",
     "Ó", "Ô", "Õ", "Ö", "×", "Ø", "Ù", "Ú", "Û", "Ü", "Ý", "Þ",
     "ß", "à", "á", "â", "ã", "ä", "å", "æ", "ç", "è", "é", "ê",
     "ë", "ì", "í", "î", "ï", "ð", "ñ", "ò", "ó", "ô", "õ", "ö",
     "÷", "ø", "ù", "ú", "û", "ü", "ý", "þ", "ÿ"}

\* ch < 127
IsAscii(c) == Len(c) = 1 /\ c \notin Latin1High

\* The white space beyond ASCII: U+0085, U+00A0, U+1680, U+2000 to U+200A,
\* U+2028, U+2029, U+202F, U+205F, U+3000.
UnicodeSpaces ==
    {"", " "}
        \cup {CodePoint(n) : n \in {5760} \cup (8192..8202)
                                     \cup {8232, 8233, 8239, 8287, 12288}}

\* The code point of the digit zero of every script beyond ASCII; its digits
\* one to nine are the next nine code points.
DecimalZeros ==
    {1632, 1776, 1984, 2406, 2534, 2662, 2790, 2918,
     3046, 3174, 3302, 3430, 3558, 3664, 3792, 3872,
     4160, 4240, 6112, 6160, 6470, 6608, 6784, 6800,
     6992, 7088, 7232, 7248, 42528, 43216, 43264, 43472,
     43504, 43600, 44016, 65296, 66720, 68912, 69734, 69872,
     69942, 70096, 70384, 70736, 70864, 71248, 71360, 71472,
     71904, 72016, 72784, 73040, 73120, 92768, 92864, 93008,
     120782, 120792, 120802, 120812, 120822, 123200, 123632, 125264,
     130032}

\* The decimal digits beyond ASCII, by value: the digits of value d are
\* UnicodeDecimalsOf[d + 1].
UnicodeDecimalsOf == <<>> \o [i \in 1..10 |-> {CodePoint(z + i - 1) : z \in DecimalZeros}]

UnicodeDecimals == UNION {UnicodeDecimalsOf[i] : i \in 1..10}

AsciiDigits == <<"0", "1", "2", "3", "4", "5", "6", "7", "8", "9">>

\* The characters float() reads as a decimal digit.
Digits == {AsciiDigits[i] : i \in 1..10} \cup UnicodeDecimals

DigitVal(c) ==
    CASE c = "0" -> 0 [] c = "1" -> 1 [] c = "2" -> 2 [] c = "3" -> 3
      [] c = "4" -> 4 [] c = "5" -> 5 [] c = "6" -> 6 [] c = "7" -> 7
      [] c = "8" -> 8 [] c = "9" -> 9
      [] OTHER -> (CHOOSE i \in 1..10 : c \in UnicodeDecimalsOf[i]) - 1

\* The digits of a run of digit characters.
DigitVals(s) == <<>> \o [i \in 1..Len(s) |-> DigitVal(s[i])]

RECURSIVE IntVal(_)
\* The value of a short decimal integer.
IntVal(ds) ==
    IF ds = <<>> THEN 0
    ELSE IntVal(SubSeq(ds, 1, Len(ds) - 1)) * 10 + ds[Len(ds)]

Least(S) == CHOOSE x \in S : \A y \in S : x <= y

Greatest(S) == CHOOSE x \in S : \A y \in S : y <= x

NoLeadingZeros(ds) ==
    LET nz == {i \in 1..Len(ds) : ds[i] # 0}
    IN  IF nz = {} THEN <<>> ELSE SubSeq(ds, Least(nz), Len(ds))

Unsigned(s) == IF Len(s) > 0 /\ s[1] \in {"+", "-"} THEN Tail(s) ELSE s

\* The characters float() strips from both ends: of ASCII space, \t, \n,
\* \r, \f and the vertical tab U+000B, and the white space beyond ASCII.
Blanks == {" ", "\t", "\n", "\r", "\f", ""} \cup UnicodeSpaces

\* What a character becomes before the string is parsed: a character of
\* ASCII stays, white space becomes a space, a decimal digit its ASCII
\* digit, any other character a question mark.
ToAsciiChar(c) ==
    IF IsAscii(c) THEN c
    ELSE IF c \in UnicodeSpaces THEN " "
    ELSE IF c \in UnicodeDecimals THEN AsciiDigits[DigitVal(c) + 1]
    ELSE "?"

\* The positions of the characters beyond ASCII that are neither white
\* space nor a decimal digit.
Unreadable(s) ==
    {i \in 1..Len(s) : ~IsAscii(s[i]) /\ s[i] \notin UnicodeSpaces \cup UnicodeDecimals}

\* The string float() parses: the characters of s made ASCII, up to and
\* with the first question mark put for an unreadable character.
MadeAscii(s, bad) ==
    <<>> \o [i \in 1..(IF bad = {} THEN Len(s) ELSE Least(bad)) |-> ToAsciiChar(s[i])]

TransformDecimalAndSpaceToASCII(s) == MadeAscii(s, Unreadable(s))

\* s from the first to the last of the positions keep.
Between(s, keep) ==
    IF keep = {} THEN <<>> ELSE SubSeq(s, Least(keep), Greatest(keep))

Strip(s) == Between(s, {i \in 1..Len(s) : s[i] \notin Blanks})

\* An underscore is allowed only between two digits.
UnderscoresOk(s) ==
    \A i \in 1..Len(s) :
        (s[i] = "_") =>
            /\ i > 1
            /\ i < Len(s)
            /\ s[i - 1] \in Digits
            /\ s[i + 1] \in Digits

NoUnderscores(s) == SelectSeq(s, LAMBDA c : c # "_")

Lower(c) ==
    CASE c = "I" -> "i" [] c = "N" -> "n" [] c = "F" -> "f" [] c = "T" -> "t"
      [] c = "Y" -> "y" [] c = "A" -> "a" [] OTHER -> c

LowerSeq(s) == <<>> \o [i \in 1..Len(s) |-> Lower(s[i])]

IsInf(u) ==
    LowerSeq(u) \in {<<"i", "n", "f">>, <<"i", "n", "f", "i", "n", "i", "t", "y">>}

IsNan(u) == LowerSeq(u) = <<"n", "a", "n">>

\* The length of the run from position i of s that ends before the first
\* of the positions stop.
RunTo(s, i, stop) ==
    IF i > Len(s) THEN 0
    ELSE IF stop = {} THEN Len(s) - i + 1
    ELSE Least(stop) - i

\* How many digits stand at the positions i, i+1, ... of s.
DigitRun(s, i) == RunTo(s, i, {j \in i..Len(s) : s[j] \notin Digits})

\* After n1 digits of u stands the point.
HasDot(u, n1) == n1 < Len(u) /\ u[n1 + 1] = "."

\* How many digits follow the point.
FracRun(u, n1) == IF HasDot(u, n1) THEN DigitRun(u, n1 + 2) ELSE 0

\* The length of digits[.digits] with n1 digits before the point and n2
\* after it.
MantissaLen(u, n1, n2) == n1 + (IF HasDot(u, n1) THEN 1 ELSE 0) + n2

\* After the m characters of the mantissa stands e or E.
HasExp(u, m) == m < Len(u) /\ u[m + 1] \in {"e", "E"}

SignedExp(u, m) == HasExp(u, m) /\ m + 1 < Len(u) /\ u[m + 2] \in {"+", "-"}

\* Where the digits of the exponent begin.
ExpStart(u, m) == m + (IF SignedExp(u, m) THEN 3 ELSE 2)

ExpRun(u, m) == IF HasExp(u, m) THEN DigitRun(u, ExpStart(u, m)) ELSE 0

\* The numeral u taken apart: n1 digits, n2 digits after the point, m the
\* length of the mantissa, n3 digits of exponent.
NumeralOf(u, n1, n2, m, n3) ==
    [ok |-> /\ n1 + n2 > 0
            /\ IF HasExp(u, m) THEN n3 > 0 /\ ExpStart(u, m) + n3 - 1 = Len(u)
               ELSE m = Len(u),
     int |-> SubSeq(u, 1, n1),
     frac |-> IF HasDot(u, n1) THEN SubSeq(u, n1 + 2, n1 + 1 + n2) ELSE <<>>,
     eneg |-> SignedExp(u, m) /\ u[m + 2] = "-",
     exp |-> IF HasExp(u, m) THEN SubSeq(u, ExpStart(u, m), ExpStart(u, m) + n3 - 1)
             ELSE <<>>]

WithMantissa(u, n1, n2, m) == NumeralOf(u, n1, n2, m, ExpRun(u, m))

WithFrac(u, n1, n2) == WithMantissa(u, n1, n2, MantissaLen(u, n1, n2))

WithInt(u, n1) == WithFrac(u, n1, FracRun(u, n1))

\* An unsigned numeral digits[.digits][(e|E)[+-]digits] or .digits[...],
\* taken apart; ok says that the whole of u is such a numeral.
Numeral(u) == WithInt(u, DigitRun(u, 1))

\* The longest numeral and the largest exponent strtod works with.
MAX_DIGITS == 1000000000

MAX_ABS_EXP == 1100000000

\* The digits of a numeral counted from its first digit that is not zero.
SigDigits(int, frac) ==
    IF int # <<>> THEN Len(int) + Len(frac) ELSE Len(NoLeadingZeros(frac))

\* strtod reads a numeral of at most MAX_DIGITS digits, and of at most
\* MAX_DIGITS digits after the point.
DigitsWithinMax(num) ==
    /\ SigDigits(NoLeadingZeros(DigitVals(num.int)), DigitVals(num.frac)) <= MAX_DIGITS
    /\ Len(num.frac) <= MAX_DIGITS

\* strtod reads the numeral.
NumeralReads(num) == num.ok /\ DigitsWithinMax(num)

\* u is inf, infinity or nan in any case, or a decimal numeral.
UnsignedParses(u) == IsInf(u) \/ IsNan(u) \/ NumeralReads(Numeral(u))

AsciiParses(a) ==
    UnderscoresOk(a) /\ UnsignedParses(Unsigned(Strip(NoUnderscores(a))))

\* float(s) succeeds, i.e. raises no ValueError: blanks around, a sign,
\* then inf, infinity or nan in any case, or a decimal numeral.
FloatParses(s) == AsciiParses(TransformDecimalAndSpaceToASCII(s))

NaN == [cls |-> "nan", neg |-> FALSE, int |-> <<>>, frac |-> <<>>]

Inf(neg) == [cls |-> "inf", neg |-> neg, int |-> <<>>, frac |-> <<>>]

Zero(neg) == [cls |-> "fin", neg |-> neg, int |-> <<>>, frac |-> <<>>]

Zeros(n) == <<>> \o [i \in 1..n |-> 0]

NoTrailingZeros(ds) ==
    LET nz == {i \in 1..Len(ds) : ds[i] # 0}
    IN  IF nz = {} THEN <<>> ELSE SubSeq(ds, 1, Greatest(nz))

\* The iterations below split their work in two halves, so that n steps
\* nest about log n deep.

\* A decimal integer halved, the remainder dropped.
Half(I) ==
    LET q == <<>> \o [i \in 1..Len(I) |->
                        ((IF i = 1 THEN 0 ELSE I[i - 1] % 2) * 10 + I[i]) \div 2]
    IN  IF q[1] = 0 THEN Tail(q) ELSE q

RECURSIVE Halvings(_, _)
\* I halved k times: the quotient, and the k low bits of I, highest first.
Halvings(I, k) ==
    IF I = <<>> \/ k = 0 THEN [q |-> I, bits |-> Zeros(k)]
    ELSE IF k = 1 THEN [q |-> Half(I), bits |-> <<I[Len(I)] % 2>>]
    ELSE LET a == Halvings(I, k \div 2)
             b == Halvings(a.q, k - k \div 2)
         IN  [q |-> b.q, bits |-> b.bits \o a.bits]

\* The bits of a decimal integer, most significant first: a number of n
\* decimal digits has at most 4 * n bits.
IntBits(I) == NoLeadingZeros(Halvings(I, 4 * Len(I)).bits)

\* 2 * I + c for a decimal integer I and a bit c.
TwicePlus(I, c) ==
    LET n == Len(I)
        d == <<>> \o [i \in 1..n |->
                        (2 * I[i] + (IF i < n THEN (IF I[i + 1] >= 5 THEN 1 ELSE 0)
                                     ELSE c)) % 10]
    IN  IF n = 0 THEN (IF c = 1 THEN <<1>> ELSE <<>>)
        ELSE IF I[1] >= 5 THEN <<1>> \o d ELSE d

RECURSIVE ShiftIn(_, _)
\* The decimal integer I with the bits b shifted in from the right.
ShiftIn(I, b) ==
    IF b = <<>> \/ (I = <<>> /\ \A i \in 1..Len(b) : b[i] = 0) THEN I
    ELSE IF Len(b) = 1 THEN TwicePlus(I, b[1])
    ELSE LET h == Len(b) \div 2
         IN  ShiftIn(ShiftIn(I, SubSeq(b, 1, h)), SubSeq(b, h + 1, Len(b)))

\* The decimal digits of an integer given by its bits.
IntDec(b) == ShiftIn(<<>>, b)

\* The fractional part of 2 * 0.F for a decimal fraction 0.F without
\* trailing zero; the result has none either.
TwiceFrac(F) ==
    LET n == Len(F)
        d == <<>> \o [i \in 1..n |->
                        (2 * F[i] + (IF i < n /\ F[i + 1] >= 5 THEN 1 ELSE 0)) % 10]
    IN  IF d # <<>> /\ d[n] = 0 THEN SubSeq(d, 1, n - 1) ELSE d

RECURSIVE FracBits(_, _)
\* The first n bits of the binary expansion of 0.F, and what is left of F.
FracBits(F, n) ==
    IF F = <<>> \/ n = 0 THEN [bits |-> Zeros(n), rest |-> F]
    ELSE IF n = 1 THEN [bits |-> <<IF F[1] >= 5 THEN 1 ELSE 0>>, rest |-> TwiceFrac(F)]
    ELSE LET a == FracBits(F, n \div 2)
             b == FracBits(a.rest, n - n \div 2)
         IN  [bits |-> a.bits \o b.bits, rest |-> b.rest]

\* How many zero bits the first n bits of the expansion of 0.F start with.
ZeroRun(F, n) ==
    LET b == FracBits(F, n).bits
        ones == {i \in 1..n : b[i] = 1}
    IN  IF ones = {} THEN n ELSE Least(ones) - 1

\* binary64: the bits of a significand, the position of the last bit of a
\* subnormal, the bits of the largest integer.
MantissaBits == 53
LastFracBit == 1074
MaxIntBits == 1024

\* The zero bits the expansion of 0.F starts with, counted up to the bit
\* after the last of a subnormal.  A fraction with n zeros after the point
\* is above 10^-(n+1), so it has a one among its first 4(n+1) bits.
LeadingZeroBits(F) ==
    LET n == 4 * (Len(F) - Len(NoLeadingZeros(F)) + 1)
    IN  ZeroRun(F, IF n < LastFracBit + 1 THEN n ELSE LastFracBit + 1)

\* b + 1 for a bit string b; the result is one bit longer when b is all ones.
Incr(b) ==
    LET zs == {i \in 1..Len(b) : b[i] = 0}
    IN  IF zs = {} THEN <<1>> \o Zeros(Len(b))
        ELSE LET j == Greatest(zs)
             IN  <<>> \o [i \in 1..Len(b) |->
                            IF i < j THEN b[i] ELSE IF i = j THEN 1 ELSE 0]

\* I + 1 for a decimal integer I.
DecIncr(I) ==
    LET ns == {i \in 1..Len(I) : I[i] # 9}
    IN  IF ns = {} THEN <<1>> \o Zeros(Len(I))
        ELSE LET j == Greatest(ns)
             IN  <<>> \o [i \in 1..Len(I) |->
                            IF i < j THEN I[i] ELSE IF i = j THEN I[i] + 1 ELSE 0]

\* A bit string cut off after its last bit kept, rounded to nearest, ties
\* to even: roundBit is the first bit cut off, sticky says that a one
\* follows it.
RoundBits(kept, roundBit, sticky) ==
    IF roundBit = 1 /\ (sticky \/ kept[Len(kept)] = 1) THEN Incr(kept) ELSE kept

\* The finite float of these bits, infinite when beyond the largest.
Finite(neg, ibits, fbits) ==
    IF Len(ibits) > MaxIntBits THEN Inf(neg)
    ELSE [cls |-> "fin", neg |-> neg, int |-> ibits, frac |-> NoTrailingZeros(fbits)]

\* The float of the bit string K whose last nfrac bits come after the point
\* and which nzeros zero bits follow before the point.
Assemble(neg, K, nfrac, nzeros) ==
    Finite(neg, SubSeq(K, 1, Len(K) - nfrac) \o Zeros(nzeros),
           SubSeq(K, Len(K) - nfrac + 1, Len(K)))

\* How many bits after the point a significand keeps; below zero, how many
\* integer bits it drops.  ib are the bits of the integer part.
FracBitsKept(ib, F) ==
    IF ib # <<>> THEN MantissaBits - Len(ib)
    ELSE IF LeadingZeroBits(F) + MantissaBits < LastFracBit
    THEN LeadingZeroBits(F) + MantissaBits
    ELSE LastFracBit

\* c >= 0: fb holds the first c + 1 bits of the fraction.
WithFraction(neg, ib, fb, c) ==
    Assemble(neg, RoundBits(ib \o SubSeq(fb.bits, 1, c), fb.bits[c + 1], fb.rest # <<>>),
             c, 0)

\* An integer of more than 53 bits.
WideInteger(neg, ib, F) ==
    Assemble(neg,
             RoundBits(SubSeq(ib, 1, MantissaBits), ib[MantissaBits + 1],
                       F # <<>> \/ \E i \in (MantissaBits + 2)..Len(ib) : ib[i] = 1),
             0, Len(ib) - MantissaBits)

FromBits(neg, ib, F, c) ==
    IF c >= 0 THEN WithFraction(neg, ib, FracBits(F, c + 1), c)
    ELSE WideInteger(neg, ib, F)

FromIntBits(neg, ib, F) == FromBits(neg, ib, F, FracBitsKept(ib, F))

\* The binary64 value nearest to the decimal I.F, ties to even: the correctly
\* rounded conversion of strtod.  I has no leading zero, F no trailing zero.
DecToDouble(neg, I, F) ==
    IF I = <<>> /\ F = <<>> THEN Zero(neg) ELSE FromIntBits(neg, IntBits(I), F)

\* The value of the digits of an exponent: MAX_ABS_EXP when they are more
\* than nine after the leading zeros.
ExpOf(t) == IF Len(t) > 9 THEN MAX_ABS_EXP ELSE IntVal(t)

ExpVal(ds) == ExpOf(NoLeadingZeros(DigitVals(ds)))

\* The digits before the point of the decimal 0.D times ten to the decpt.
IntDigits(D, decpt) ==
    NoLeadingZeros(IF decpt <= 0 THEN <<>>
                   ELSE IF decpt >= Len(D) THEN D \o Zeros(decpt - Len(D))
                   ELSE SubSeq(D, 1, decpt))

\* The digits after the point of the decimal 0.D times ten to the decpt.
FracDigits(D, decpt) ==
    NoTrailingZeros(IF decpt <= 0 THEN Zeros(0 - decpt) \o D
                    ELSE IF decpt >= Len(D) THEN <<>>
                    ELSE SubSeq(D, decpt + 1, Len(D)))

\* The float of the decimal 0.D times ten to the decpt.
OfDecimal(neg, D, decpt) ==
    DecToDouble(neg, IntDigits(D, decpt), FracDigits(D, decpt))

LeadingZeros(ds) == Len(ds) - Len(NoLeadingZeros(ds))

\* The float of the decimal 0.D times ten to the decpt, D without leading
\* zero: at decpt above 309 it is beyond the largest float, at decpt below
\* -323 it is under half the smallest.
InRange(neg, D, decpt) ==
    IF D = <<>> THEN Zero(neg)
    ELSE IF decpt > 309 THEN Inf(neg)
    ELSE IF decpt < -323 THEN Zero(neg)
    ELSE OfDecimal(neg, NoTrailingZeros(D), decpt)

\* The float of the digits all = int \o frac with the point after nint of
\* them, times ten to the e.
Scaled(neg, all, nint, e) ==
    InRange(neg, NoLeadingZeros(all), nint - LeadingZeros(all) + e)

\* The float of a numeral taken apart by Numeral.
Strtod(neg, num) ==
    Scaled(neg, DigitVals(num.int \o num.frac), Len(num.int),
           IF num.eneg THEN 0 - ExpVal(num.exp) ELSE ExpVal(num.exp))

\* float(u) for an unsigned u of a string that parses; neg is its sign.
OfUnsigned(neg, u) ==
    IF IsNan(u) THEN NaN
    ELSE IF IsInf(u) THEN Inf(neg)
    ELSE Strtod(neg, Numeral(u))

\* The sign and the rest of a stripped string.
OfStripped(b) == OfUnsigned(b # <<>> /\ b[1] = "-", Unsigned(b))

\* float(s), for s with FloatParses(s).
ParseFloat(s) == OfStripped(Strip(NoUnderscores(TransformDecimalAndSpaceToASCII(s))))

\* (c + 0.F) / 2 for a bit c and a decimal fraction 0.F.
HalfFrac(c, F) ==
    LET ds == <<c>> \o F
        n == Len(ds)
    IN  (<<>> \o [i \in 1..(n - 1) |-> ((ds[i] % 2) * 10 + ds[i + 1]) \div 2])
        \o (IF ds[n] % 2 = 1 THEN <<5>> ELSE <<>>)

RECURSIVE ShiftDown(_, _)
\* The decimal fraction 0.F with the bits b put in front of it in binary:
\* (0.b) + (0.F) / 2^Len(b).
ShiftDown(b, F) ==
    IF b = <<>> \/ (F = <<>> /\ \A i \in 1..Len(b) : b[i] = 0) THEN F
    ELSE IF Len(b) = 1 THEN HalfFrac(b[1], F)
    ELSE LET h == Len(b) \div 2
         IN  ShiftDown(SubSeq(b, 1, h), ShiftDown(SubSeq(b, h + 1, Len(b)), F))

\* The decimal digits of a binary fraction 0.b, exactly.
FracDec(b) == ShiftDown(b, <<>>)

\* The float nearest to a count of hundredths: ds are the digits of the
\* integer part followed by two decimals.
OfHundredths(neg, ds) ==
    DecToDouble(neg, NoLeadingZeros(SubSeq(ds, 1, Len(ds) - 2)),
                NoTrailingZeros(SubSeq(ds, Len(ds) - 1, Len(ds))))

\* The decimal I.F cut after the 2nd decimal: the digits kept, and the
\* digits cut off.
Cut(I, F) ==
    [kept |-> I \o SubSeq(F \o <<0, 0>>, 1, 2),
     cut |-> NoTrailingZeros(SubSeq(F \o <<0, 0>>, 3, Len(F) + 2))]

\* The exact decimal expansion of a finite x cut after the 2nd decimal.
CutAtHundredths(x) == Cut(IntDec(x.int), FracDec(x.frac))

\* Truncation toward zero at the 2nd decimal (faulty variant).
Round2_Truncates(x) ==
    IF x.cls # "fin" THEN x ELSE OfHundredths(x.neg, CutAtHundredths(x).kept)

\* The digits kept, one up when the digits cut off are above a half or are
\* a half and the last digit kept is odd.
HalfEven(kept, cut) ==
    IF \/ cut # <<>> /\ cut[1] >= 5 /\ cut # <<5>>
       \/ cut = <<5>> /\ kept[Len(kept)] % 2 = 1
    THEN DecIncr(kept) ELSE kept

RoundCut(neg, t) == OfHundredths(neg, HalfEven(t.kept, t.cut))

\* round(x, 2): the exact binary value of x is rounded to the nearest
\* hundredth, a value exactly halfway to the even hundredth, and the result
\* is the float nearest to that decimal.  inf and nan round to themselves.
Round2(x) == IF x.cls # "fin" THEN x ELSE RoundCut(x.neg, CutAtHundredths(x))

\* digits one up in the last place, with the point moved on a carry out.
OneUp(up, n, decpt) ==
    [digits |-> SubSeq(up, 1, n), decpt |-> decpt + (Len(up) - n)]

\* The decimals next to lo.cut, below and above, the nearer first.
Ordered(lo, cut, decpt) ==
    IF \/ cut[1] > 5
       \/ cut[1] = 5 /\ Len(cut) > 1
       \/ cut = <<5>> /\ lo[Len(lo)] % 2 = 1
    THEN <<OneUp(DecIncr(lo), Len(lo), decpt), [digits |-> lo, decpt |-> decpt]>>
    ELSE <<[digits |-> lo, decpt |-> decpt], OneUp(DecIncr(lo), Len(lo), decpt)>>

\* The decimals of n digits next to the exact expansion 0.S times ten to
\* the decpt.
Neighbours(S, decpt, n) ==
    Ordered(SubSeq(S, 1, n), SubSeq(S, n + 1, Len(S)), decpt)

\* The decimals of n digits that convert back to the float x.
ReadBack(x, S, decpt, n) ==
    IF n >= Len(S) THEN <<[digits |-> S, decpt |-> decpt]>>
    ELSE SelectSeq(Neighbours(S, decpt, n),
                   LAMBDA d : OfDecimal(x.neg, d.digits, d.decpt) = x)

Trimmed(d) == [digits |-> NoTrailingZeros(d.digits), decpt |-> d.decpt]

\* The shortest decimal that converts back to x, which has 17 digits at
\* most, and of these the nearest to x; 0.S times ten to the decpt is the
\* exact expansion of x.
ShortestFrom(x, S, decpt) ==
    Trimmed(ReadBack(x, S, decpt,
                     Least({k \in 1..17 : ReadBack(x, S, decpt, k) # <<>>}))[1])

ShortestOf(x, I, F) ==
    ShortestFrom(x, NoTrailingZeros(NoLeadingZeros(I \o F)),
                 Len(I) - LeadingZeros(I \o F))

\* The digits of repr(x) for a finite x other than zero.
ShortestDigits(x) == ShortestOf(x, IntDec(x.int), FracDec(x.frac))

DigitChars(ds) == <<>> \o [i \in 1..Len(ds) |-> ToString(ds[i])]

\* The layout of repr: positional for 1e-4 <= |x| < 1e16, with at least one
\* digit after the point, and d.ddde+XX otherwise.
Layout(D, decpt) ==
    LET n == Len(D)
        e == decpt - 1
        a == IF e < 0 THEN 0 - e ELSE e
    IN  IF decpt > 16 \/ decpt < -3
        THEN Join(DigitChars(SubSeq(D, 1, 1)))
             \o (IF n > 1 THEN "." \o Join(DigitChars(SubSeq(D, 2, n))) ELSE "")
             \o "e" \o (IF e < 0 THEN "-" ELSE "+")
             \o (IF a < 10 THEN "0" ELSE "") \o ToString(a)
        ELSE IF decpt <= 0
        THEN "0." \o Join(DigitChars(Zeros(0 - decpt) \o D))
        ELSE IF decpt >= n
        THEN Join(DigitChars(D \o Zeros(decpt - n))) \o ".0"
        ELSE Join(DigitChars(SubSeq(D, 1, decpt))) \o "."
             \o Join(DigitChars(SubSeq(D, decpt + 1, n)))

LayoutOf(d) == Layout(d.digits, d.decpt)

\* str(x) of a float: the shortest decimal that reads back as x; the sign
\* of a negative zero is kept, nan has none.
FormatFloat(x) ==
    IF x.cls = "nan" THEN "nan"
    ELSE (IF x.neg THEN "-" ELSE "")
         \o (IF x.cls = "inf" THEN "inf"
             ELSE IF x.int = <<>> /\ x.frac = <<>> THEN "0.0"
             ELSE LayoutOf(ShortestDigits(x)))

\* `if not lat or not lng`: a parameter is missing or empty.
ClimateParamsMissing(params) ==
    \/ "lat" \notin DOMAIN params
    \/ "lng" \notin DOMAIN params
    \/ params.lat = <<>>
    \/ params.lng = <<>>

(***************************************************************************)
(* Canopy: quadkey validation, local tile store, cache key.                *)
(* A quadkey is a sequence of characters.                                  *)
(***************************************************************************)
\* A validation that admits the empty quadkey (faulty variant).
QuadkeyValid_AdmitsEmpty(quadkey) ==
    \A i \in 1..Len(quadkey) : quadkey[i] \in {"0", "1", "2", "3"}

\* `not quadkey or not all(c in "0123" for c in quadkey)` is the rejection.
QuadkeyValid(quadkey) ==
    /\ quadkey # <<>>
    /\ \A i \in 1..Len(quadkey) : quadkey[i] \in {"0", "1", "2", "3"}

\* The quadkeys with a file data/canopy/<quadkey>.tif on disk.
LocalTiles == {"01"}

\* os.path.exists(local_path)
LocalExists(quadkey) == Join(quadkey) \in LocalTiles

\* cache_key = f"canopy:{quadkey}"
CanopyKey(quadkey) == "canopy:" \o Join(quadkey)

(***************************************************************************)
(* The upstream client.  One call ends in a timeout, in another transport  *)
(* error, or in a response [status, json, content]; json says whether the  *)
(* body parses as JSON, content is the payload.                            *)
(***************************************************************************)
NoCall == [type |-> "none"]

StatusCodes == {200, 404, 503}

JsonPayloads == {[len |-> 0, ver |-> "x"], [len |-> 2, ver |-> "y"]}

TilePayloads ==
    {[len |-> 0, ver |-> "x"],
     [len |-> MaxCachedTileBytes - 1, ver |-> "y"],
     [len |-> MaxCachedTileBytes, ver |-> "x"]}

Payloads(kind) == IF kind = "canopy" THEN TilePayloads ELSE JsonPayloads

\* The ways a call fails: a timeout, a non-2xx status, and one fault of
\* another sort, which is a 200 whose body is not JSON for the JSON proxies
\* and a transport error for the tile proxy.  msg is the message of the
\* exception raised: what httpx says of the fault, and for a body that is
\* not JSON what the json decoder says of that body.
Failures(kind) ==
    {[type |-> "timeout", msg |-> "The read operation timed out"]}
    \cup {[type |-> "response", status |-> s, json |-> FALSE, content |-> PyNone,
            msg |-> "Expecting value: line 1 column 1 (char 0)"] :
            s \in StatusCodes \ {200}}
    \cup (IF kind = "canopy"
          THEN {[type |-> "error", msg |-> "All connection attempts failed"]}
          ELSE {[type |-> "response", status |-> 200, json |-> FALSE,
                 content |-> [len |-> 2, ver |-> "x"],
                 msg |-> "Expecting value: line 1 column 1 (char 0)"]})

\* What an arbitrary upstream can answer to one call.
AnyResult(kind) ==
    Failures(kind)
    \cup {[type |-> "response", status |-> 200, json |-> TRUE, content |-> p] :
            p \in Payloads(kind)}

\* The payload of an upstream that is a fixed function of the request sent.
OriginPayload(kind, sent) ==
    [len |-> IF kind = "canopy" THEN MaxCachedTileBytes - 1 ELSE 2,
     ver |-> sent]

\* What a deterministic upstream can answer: it may still fail.
FixedResult(kind, sent) ==
    Failures(kind)
    \cup {[type |-> "response", status |-> 200, json |-> TRUE,
           content |-> OriginPayload(kind, sent)]}

\* response.raise_for_status() raises for every status outside 2xx.
IsSuccess(status) == 200 <= status /\ status < 300

\* A try block without response.raise_for_status(): a non-2xx response is
\* taken for a success (faulty variant).
Raised_NoRaiseForStatus(kind, up) ==
    CASE up.type = "timeout" -> "TimeoutException"
      [] up.type = "error" -> "Exception"
      [] up.type = "response" /\ kind # "canopy" /\ ~up.json -> "Exception"
      [] OTHER -> "none"

\* The exception the try block ends with, "none" when it completes.
\* Overpass and Climate also call response.json().
Raised(kind, up) ==
    CASE up.type = "timeout" -> "TimeoutException"
      [] up.type = "error" -> "Exception"
      [] up.type = "response" /\ ~IsSuccess(up.status) -> "HTTPStatusError"
      [] up.type = "response" /\ IsSuccess(up.status)
            /\ kind # "canopy" /\ ~up.json -> "Exception"
      [] OTHER -> "none"

\* str(e) of the exception: the message it was raised with.
ExcText(up) == up.msg

Response(status, body) == [status |-> status, body |-> body]

\* Overpass without its timeout clause (faulty variant).
OverpassFailure_NoTimeoutClause(exc, up) ==
    CASE exc = "HTTPStatusError" ->
            Response(HTTP_502_BAD_GATEWAY,
                     [error |-> "Overpass API error: " \o ToString(up.status)])
      [] OTHER ->
            Response(HTTP_500_INTERNAL_SERVER_ERROR, [error |-> ExcText(up)])

\* The except clauses of OverpassProxyView.post.
OverpassFailure(exc, up) ==
    CASE exc = "TimeoutException" ->
            Response(HTTP_504_GATEWAY_TIMEOUT, [error |-> "Overpass API timeout"])
      [] exc = "HTTPStatusError" ->
            Response(HTTP_502_BAD_GATEWAY,
                     [error |-> "Overpass API error: " \o ToString(up.status)])
      [] OTHER ->
            Response(HTTP_500_INTERNAL_SERVER_ERROR, [error |-> ExcText(up)])

\* The except clauses of ClimateProxyView.get.
ClimateFailure(exc, up) ==
    CASE exc = "TimeoutException" ->
            Response(HTTP_504_GATEWAY_TIMEOUT, [error |-> "Climate API timeout"])
      [] exc = "HTTPStatusError" ->
            Response(HTTP_502_BAD_GATEWAY,
                     [error |-> "Climate API error: " \o ToString(up.status)])
      [] OTHER ->
            Response(HTTP_500_INTERNAL_SERVER_ERROR, [error |-> ExcText(up)])

\* Canopy without the 404 case (faulty variant).
CanopyFailure_No404Case(exc, up) ==
    CASE exc = "HTTPStatusError" ->
            Response(HTTP_502_BAD_GATEWAY,
                     [error |-> "Tile fetch error: " \o ToString(up.status)])
      [] OTHER ->
            Response(HTTP_500_INTERNAL_SERVER_ERROR, [error |-> ExcText(up)])

\* The except clauses of CanopyTileView.get: no timeout clause, so a timeout
\* is caught by `except Exception`.
CanopyFailure(exc, up) ==
    CASE exc = "HTTPStatusError" /\ up.status = HTTP_404_NOT_FOUND ->
            Response(HTTP_404_NOT_FOUND, [error |-> "Tile not found"])
      [] exc = "HTTPStatusError" ->
            Response(HTTP_502_BAD_GATEWAY,
                     [error |-> "Tile fetch error: " \o ToString(up.status)])
      [] OTHER ->
            Response(HTTP_500_INTERNAL_SERVER_ERROR, [error |-> ExcText(up)])

Failure(kind, exc, up) ==
    CASE kind = "overpass" -> OverpassFailure(exc, up)
      [] kind = "climate" -> ClimateFailure(exc, up)
      [] kind = "canopy" -> CanopyFailure(exc, up)

\* Caching every tile whatever its size (faulty variant).
ShouldCache_Always(kind, data) == TRUE

\* Canopy caches only `len(tile_bytes) < 25 * 1024 * 1024`; the JSON
\* proxies cache every successful fetch.
ShouldCache(kind, data) == kind = "canopy" => data.len < MaxCachedTileBytes

\* The Overpass TTL used for every proxy (faulty variant).
TTL_OverpassForAll(kind) == CACHE_TTL_OVERPASS

\* The timeout each handler passes to cache.set.
TTL(kind) ==
    CASE kind = "overpass" -> CACHE_TTL_OVERPASS
      [] kind = "climate" -> CACHE_TTL_CLIMATE
      [] kind = "canopy" -> CACHE_TTL_CANOPY

\* `if cached:` is Python truthiness of the value cache.get returned.
IsHit(cached) == Truthy(cached)

(***************************************************************************)
(* The requests the model sends.                                           *)
(***************************************************************************)
\* request.data of POST /overpass/
OverpassInputs == {<<>>, [query |-> ""], [query |-> "a"], [query |-> "b"]}

Lat37_774 == <<"3", "7", ".", "7", "7", "4">>
Lat37_7751 == <<"3", "7", ".", "7", "7", "5", "1">>
Lat37_7651 == <<"3", "7", ".", "7", "6", "5", "1">>
Lat37_775 == <<"3", "7", ".", "7", "7", "5">>
Lng122_4194 == <<"-", "1", "2", "2", ".", "4", "1", "9", "4">>
LatMinus0_004 == <<"-", "0", ".", "0", "0", "4">>
Lng0_004 == <<"0", ".", "0", "0", "4">>

\* request.query_params of GET /climate/
ClimateInputs ==
    {[lat |-> Lat37_774],
     [lat |-> <<"a", "b", "c">>, lng |-> Lng122_4194],
     [lat |-> Lat37_774, lng |-> <<"1", ".", "2", ".", "3">>],
     [lat |-> Lat37_774, lng |-> Lng122_4194],
     [lat |-> Lat37_7751, lng |-> Lng122_4194],
     [lat |-> Lat37_7651, lng |-> Lng122_4194],
     [lat |-> Lat37_775, lng |-> Lng122_4194],
     [lat |-> LatMinus0_004, lng |-> Lng0_004]}

\* The function with the graph pairs.
Tabulate(pairs) ==
    [a \in {e[1] : e \in pairs} |-> (CHOOSE e \in pairs : e[1] = a)[2]]

\* The parameters of the requests above.
ClimateParams == UNION {{p[f] : f \in DOMAIN p} : p \in ClimateInputs}

\* round(float(s), 2) for the parameters above that parse, and str() of
\* these floats, worked out once.
RoundedMemo ==
    Tabulate({<<s, Round2(ParseFloat(s))>> : s \in {t \in ClimateParams : FloatParses(t)}})

TextMemo ==
    Tabulate({<<x, FormatFloat(x)>> : x \in {RoundedMemo[s] : s \in DOMAIN RoundedMemo}})

\* memo[a] where the table memo has a, else other.
OrElse(memo, a, other) == IF a \in DOMAIN memo THEN memo[a] ELSE other

\* float(s) raises no ValueError
Parses(s) == IF s \in ClimateParams THEN s \in DOMAIN RoundedMemo ELSE FloatParses(s)

\* round(float(s), 2)
Rounded(s) == OrElse(RoundedMemo, s, Round2(ParseFloat(s)))

\* str(v) of a float
Text(v) == OrElse(TextMemo, v, FormatFloat(v))

\* cache_key = f"climate:{lat_r}:{lng_r}"
ClimateKey(lat_r, lng_r) == "climate:" \o Text(lat_r) \o ":" \o Text(lng_r)

\* The quadkey argument of CanopyTileView.get
CanopyInputs ==
    {<<>>, <<"4">>, <<"0", "1", "2", "a">>, <<"0", "1", "2", "3">>, <<"0", "1">>}

(***************************************************************************)
(* A request in progress.                                                  *)
(*   pc      "idle", "fetch" (missed, about to call upstream), "store"     *)
(*           (fetched, about to cache and answer), "done"                  *)
(*   input   the request's data, key its cache key, sent what it asks of   *)
(*           the upstream, cached what cache.get returned, up the upstream *)
(*           result, data the fetched payload, status/body the response    *)
(*   trace   the steps taken so far, in order                              *)
(*   setNo   the rank of its cache.set among all cache.set calls, 0 if none*)
(***************************************************************************)
IdleReq ==
    [pc |-> "idle", kind |-> "none", input |-> <<>>, key |-> "", sent |-> "",
     cached |-> PyNone, up |-> NoCall, data |-> PyNone,
     status |-> 0, body |-> PyNone, trace |-> <<>>, setNo |-> 0]

Respond(rec, resp) ==
    [rec EXCEPT !.pc = "done", !.status = resp.status, !.body = resp.body]

\* cache.get under the key, then the hit test: a hit answers 200 with the
\* cached value, a miss goes on to the upstream call.
Lookup(rec, key, sent) ==
    LET cached == CacheGet(cache, key, now)
        looked == [rec EXCEPT !.key = key, !.sent = sent, !.cached = cached,
                              !.trace = Append(@, "lookup")]
    IN  IF IsHit(cached) THEN Respond(looked, Response(HTTP_200_OK, cached))
        ELSE [looked EXCEPT !.pc = "fetch"]

\* OverpassProxyView.post up to the cache lookup.
OverpassBegin(rec, data) ==
    LET started == [rec EXCEPT !.kind = "overpass", !.input = data,
                               !.trace = <<"validate">>]
        query == OverpassQuery(data)
    IN  IF ~OverpassValid(data)
        THEN Respond(started, Response(HTTP_400_BAD_REQUEST,
                                       [error |-> "Missing 'query' parameter"]))
        ELSE Lookup(started, OverpassKey(query), query)

\* ClimateProxyView.get up to the cache lookup.
ClimateBegin(rec, params) ==
    LET started == [rec EXCEPT !.kind = "climate", !.input = params,
                               !.trace = <<"validate">>]
    IN  IF ClimateParamsMissing(params)
        THEN Respond(started, Response(HTTP_400_BAD_REQUEST,
                                       [error |-> "Missing 'lat' and 'lng' parameters"]))
        ELSE IF ~(Parses(params.lat) /\ Parses(params.lng))
        THEN Respond(started, Response(HTTP_400_BAD_REQUEST,
                                       [error |-> "Invalid lat/lng values"]))
        ELSE LET lat_r == Rounded(params.lat)
                 lng_r == Rounded(params.lng)
             IN  Lookup(started, ClimateKey(lat_r, lng_r),
                        "latitude=" \o Text(lat_r)
                        \o "&longitude=" \o Text(lng_r))

\* The bytes of the local tile file.
LocalTile(quadkey) == [len |-> 1024, ver |-> "disk:" \o Join(quadkey)]

\* CanopyTileView.get up to the cache lookup.
CanopyBegin(rec, quadkey) ==
    LET started == [rec EXCEPT !.kind = "canopy", !.input = quadkey,
                               !.trace = <<"validate">>]
        checked == [started EXCEPT !.trace = Append(@, "local")]
    IN  IF ~QuadkeyValid(quadkey)
        THEN Respond(started, Response(HTTP_400_BAD_REQUEST,
                                       [error |-> "Invalid quadkey format"]))
        ELSE IF LocalExists(quadkey)
        THEN Respond(checked, Response(HTTP_200_OK, LocalTile(quadkey)))
        ELSE Lookup(checked, CanopyKey(quadkey), Join(quadkey) \o ".tif")

\* The try block of a handler with the upstream result `up`: an exception
\* answers with the handler's error response, success keeps the payload.
AfterUpstream(rec, up) ==
    LET called == [rec EXCEPT !.up = up, !.trace = Append(@, "upstream")]
        exc == Raised(rec.kind, up)
    IN  IF exc # "none" THEN Respond(called, Failure(rec.kind, exc, up))
        ELSE [called EXCEPT !.pc = "store", !.data = up.content]

(***************************************************************************)
(* The state machine.                                                      *)
(***************************************************************************)
Init ==
    /\ now = 0
    /\ cache = <<>>
    /\ nsets = 0
    /\ reqs = [r \in Reqs |-> IdleReq]

\* Requests arrive one after the other: request r arrives after request r-1.
Arrives(r) ==
    /\ reqs[r].pc = "idle"
    /\ IF r = 1 THEN TRUE ELSE reqs[r - 1].pc # "idle"

BeginOverpass(r) ==
    /\ Arrives(r)
    /\ \E data \in OverpassInputs :
          reqs' = [reqs EXCEPT ![r] = OverpassBegin(@, data)]
    /\ UNCHANGED <<now, cache, nsets>>

BeginClimate(r) ==
    /\ Arrives(r)
    /\ \E params \in ClimateInputs :
          reqs' = [reqs EXCEPT ![r] = ClimateBegin(@, params)]
    /\ UNCHANGED <<now, cache, nsets>>

BeginCanopy(r) ==
    /\ Arrives(r)
    /\ \E quadkey \in CanopyInputs :
          reqs' = [reqs EXCEPT ![r] = CanopyBegin(@, quadkey)]
    /\ UNCHANGED <<now, cache, nsets>>

\* The upstream call of request r, against an arbitrary upstream.
Upstream(r) ==
    /\ reqs[r].pc = "fetch"
    /\ \E up \in AnyResult(reqs[r].kind) :
          reqs' = [reqs EXCEPT ![r] = AfterUpstream(@, up)]
    /\ UNCHANGED <<now, cache, nsets>>

\* The upstream call of request r, against a deterministic upstream.
UpstreamFixed(r) ==
    /\ reqs[r].pc = "fetch"
    /\ \E up \in FixedResult(reqs[r].kind, reqs[r].sent) :
          reqs' = [reqs EXCEPT ![r] = AfterUpstream(@, up)]
    /\ UNCHANGED <<now, cache, nsets>>

\* After a successful fetch: cache.set (canopy: only below the size limit),
\* then the 200 response with the fetched payload.
Store(r) ==
    /\ reqs[r].pc = "store"
    /\ LET rec == reqs[r] IN
       IF ShouldCache(rec.kind, rec.data)
       THEN /\ cache' = CacheSet(cache, rec.key, rec.data, TTL(rec.kind), now)
            /\ nsets' = nsets + 1
            /\ reqs' = [reqs EXCEPT ![r] =
                          Respond([rec EXCEPT !.trace = Append(@, "set"),
                                              !.setNo = nsets + 1],
                                  Response(HTTP_200_OK, rec.data))]
       ELSE /\ reqs' = [reqs EXCEPT ![r] =
                          Respond(rec, Response(HTTP_200_OK, rec.data))]
            /\ UNCHANGED <<cache, nsets>>
    /\ UNCHANGED now

\* The instants at which the clock is observed: the start, the last second
\* inside the shortest TTL window opened at the start, and its end.
Instants == {0, CACHE_TTL_OVERPASS - 1, CACHE_TTL_OVERPASS}

\* Time passes to the next instant; the store drops the entries whose TTL
\* has run out.
Tick ==
    /\ \E t \in Instants :
          /\ t > now
          /\ \A u \in Instants : u > now => t <= u
          /\ now' = t
          /\ cache' = Evict(cache, t)
    /\ UNCHANGED <<nsets, reqs>>

Next ==
    \/ \E r \in Reqs : BeginOverpass(r)
    \/ \E r \in Reqs : BeginClimate(r)
    \/ \E r \in Reqs : BeginCanopy(r)
    \/ \E r \in Reqs : Upstream(r)
    \/ \E r \in Reqs : Store(r)
    \/ Tick

Spec == Init /\ [][Next]_vars

NextFixed ==
    \/ \E r \in Reqs : BeginOverpass(r)
    \/ \E r \in Reqs : BeginClimate(r)
    \/ \E r \in Reqs : BeginCanopy(r)
    \/ \E r \in Reqs : UpstreamFixed(r)
    \/ \E r \in Reqs : Store(r)
    \/ Tick

\* The same system against an upstream that is deterministic per request.
SpecFixed == Init /\ [][NextFixed]_vars

(***************************************************************************)
(* Vocabulary of the properties.                                           *)
(***************************************************************************)
Did(r, step) == \E i \in 1..Len(reqs[r].trace) : reqs[r].trace[i] = step

Done(r) == reqs[r].pc = "done"

HasError(r) == "error" \in DOMAIN reqs[r].body

Is(r, kind) == reqs[r].pc # "idle" /\ reqs[r].kind = kind

\* The lookup of request r found an entry of the store (present, unexpired).
FoundEntry(r) == Did(r, "lookup") /\ reqs[r].cached # PyNone

(***************************************************************************)
(* C1.  Overpass: a request carrying query q that falls inside the TTL     *)
(* window of an entry stored for q by an earlier request (its lookup finds *)
(* that entry, present and unexpired) issues no upstream call: after the   *)
(* first request has fetched and stored, every later one within the window *)
(* is answered from the cache.                                             *)
(***************************************************************************)
C1_RepeatWithinTTLIssuesNoUpstream ==
    \A r \in Reqs :
        (Is(r, "overpass") /\ FoundEntry(r)) => ~Did(r, "upstream")

(***************************************************************************)
(* C2.  Canopy: the tiers are checked in order local file, cache,          *)
(* upstream.  With a local file for the quadkey the request does no cache  *)
(* lookup, no cache write and no upstream call; with no local file and the *)
(* tile held by the cache the request does no upstream call.               *)
(***************************************************************************)
C2_TiersInOrder ==
    \A r \in Reqs :
        (Is(r, "canopy") /\ Did(r, "local")) =>
            /\ Join(reqs[r].input) \in LocalTiles =>
                  ~Did(r, "lookup") /\ ~Did(r, "set") /\ ~Did(r, "upstream")
            /\ (Join(reqs[r].input) \notin LocalTiles /\ FoundEntry(r)) =>
                  ~Did(r, "upstream")

(***************************************************************************)
(* C3.  Canopy, the step after a successful upstream fetch: the payload is *)
(* returned with status 200; a payload of 25 MiB or more leaves the cache  *)
(* store untouched, a payload strictly below 25 MiB is stored under        *)
(* canopy:<quadkey> with an expiry one year (365 days) after the write,    *)
(* and no other entry changes.                                             *)
(***************************************************************************)
C3_StoreStep(r) ==
    (Is(r, "canopy") /\ reqs[r].pc = "store" /\ reqs'[r].pc = "done") =>
        LET tile == reqs[r].data
            key == "canopy:" \o Join(reqs[r].input)
        IN  /\ reqs'[r].status = 200
            /\ reqs'[r].body = tile
            /\ IF tile.len >= 25 * 1024 * 1024
               THEN cache' = cache /\ ~Did(r, "set")'
               ELSE /\ key \in DOMAIN cache'
                    /\ cache'[key] = [value |-> tile,
                                      expires |-> now + 365 * 24 * 60 * 60]
                    /\ \A k \in (DOMAIN cache \cup DOMAIN cache') \ {key} :
                          k \in DOMAIN cache /\ k \in DOMAIN cache'
                          /\ cache'[k] = cache[k]

C3_OversizedTileNotCached == [][\A r \in Reqs : C3_StoreStep(r)]_vars

\* An oversized tile was served without being cached, and the next request
\* for the same quadkey missed the cache, fetched again and cached a tile
\* below the limit.
C3_Witness ==
    \E r1, r2 \in Reqs :
        /\ r1 < r2
        /\ Is(r1, "canopy") /\ Is(r2, "canopy")
        /\ reqs[r1].input = reqs[r2].input
        /\ Done(r1) /\ reqs[r1].status = 200
        /\ reqs[r1].data.len >= MaxCachedTileBytes
        /\ ~Did(r1, "set")
        /\ Done(r2) /\ reqs[r2].cached = PyNone
        /\ Did(r2, "upstream") /\ Did(r2, "set")
        /\ reqs[r2].setNo = 1
        /\ reqs[r2].data.len < MaxCachedTileBytes
        /\ reqs[r2].data.len > 0
        /\ cache[reqs[r2].key].value = reqs[r2].data

(***************************************************************************)
(* C4.  A request whose upstream call timed out is answered with an error  *)
(* body (a body with an `error` field), on each of the three proxies; on   *)
(* Overpass and Climate the status is 504.                                 *)
(***************************************************************************)
C4_TimeoutIsStructuredError ==
    \A r \in Reqs :
        (reqs[r].up.type = "timeout") =>
            /\ Done(r)
            /\ HasError(r)
            /\ reqs[r].status >= 500
            /\ reqs[r].kind \in {"overpass", "climate"} => reqs[r].status = 504

\* An Overpass request and a Canopy request have both timed out.
C4_Witness ==
    \E r1, r2 \in Reqs :
        /\ Is(r1, "overpass") /\ reqs[r1].up.type = "timeout"
        /\ reqs[r1].status = 504
        /\ Is(r2, "canopy") /\ reqs[r2].up.type = "timeout"
        /\ HasError(r2)

(***************************************************************************)
(* C5.  Upstream failure mapping.  Canopy: upstream 404 gives 404, any     *)
(* other non-2xx status gives 502 with the upstream status in the message, *)
(* any other fault gives 500.  Overpass and Climate: every non-2xx status, *)
(* 404 included, gives 502.                                                *)
(***************************************************************************)
C5_FailureMapping ==
    \A r \in Reqs :
        Did(r, "upstream") =>
            LET up == reqs[r].up
                bad == up.type = "response" /\ (up.status < 200 \/ up.status > 299)
            IN  /\ (reqs[r].kind = "canopy" /\ bad /\ up.status = 404) =>
                      reqs[r].status = 404 /\ HasError(r)
                /\ (reqs[r].kind = "canopy" /\ bad /\ up.status # 404) =>
                      /\ reqs[r].status = 502
                      /\ reqs[r].body = [error |-> "Tile fetch error: "
                                                   \o ToString(up.status)]
                /\ (reqs[r].kind = "canopy" /\ up.type # "response") =>
                      reqs[r].status = 500 /\ HasError(r)
                /\ (reqs[r].kind \in {"overpass", "climate"} /\ bad) =>
                      reqs[r].status = 502 /\ HasError(r)

\* Upstream answered 404 to a Canopy request and to an Overpass request.
C5_Witness ==
    \E r1, r2 \in Reqs :
        /\ Is(r1, "canopy") /\ Done(r1)
        /\ reqs[r1].up.type = "response" /\ reqs[r1].up.status = 404
        /\ reqs[r1].status = 404
        /\ Is(r2, "overpass") /\ Done(r2)
        /\ reqs[r2].up.type = "response" /\ reqs[r2].up.status = 404
        /\ reqs[r2].status = 502

(***************************************************************************)
(* C6.  (As claimed)  Climate: two requests whose latitudes agree in all   *)
(* digits up to and including the 2nd decimal, and whose longitudes do,    *)
(* get the same cache key; 37.774 and 37.7751 both give 37.77.             *)
(***************************************************************************)
\* A literal of the form [+-]digits[.digits] read as a decimal.
DotAt(s) == {i \in 1..Len(s) : s[i] = "."}

IntPart(s) ==
    IF DotAt(s) = {} THEN s ELSE SubSeq(s, 1, (CHOOSE i \in DotAt(s) : TRUE) - 1)

FracPart(s) ==
    IF DotAt(s) = {} THEN <<>>
    ELSE SubSeq(s, (CHOOSE i \in DotAt(s) : TRUE) + 1, Len(s))

\* The sign, the integer digits and the first two decimals of a literal.
DecimalPrefix2(s) ==
    LET u == Unsigned(s)
        padded == FracPart(u) \o <<"0", "0">>
    IN  <<Len(s) > 0 /\ s[1] = "-", IntPart(u), SubSeq(padded, 1, 2)>>

C6_KeyIgnoresDigitsBeyondSecondDecimal ==
    \A r1, r2 \in Reqs :
        (/\ Is(r1, "climate") /\ Did(r1, "lookup")
         /\ Is(r2, "climate") /\ Did(r2, "lookup")
         /\ DecimalPrefix2(reqs[r1].input.lat) = DecimalPrefix2(reqs[r2].input.lat)
         /\ DecimalPrefix2(reqs[r1].input.lng) = DecimalPrefix2(reqs[r2].input.lng))
        => reqs[r1].key = reqs[r2].key

(***************************************************************************)
(* C6.  (As amended)  Climate: the key is climate:<lat>:<lng> where each   *)
(* component is str(round(float(x), 2)) of the parameter: its binary float *)
(* rounded to the nearest hundredth, not truncated, and written as Python  *)
(* writes a float.  37.774 and 37.7651 give 37.77 and 37.7751 gives 37.78; *)
(* 37.775, written halfway, is a float a little under 37.775 and gives     *)
(* 37.77.  A zero keeps its sign: -0.004 gives -0.0 and 0.004 gives 0.0.   *)
(***************************************************************************)
\* str(round(float(s), 2)) as Python computes it for the parameters the
\* requests carry.
KeyComponent(s) ==
    CASE s = Lat37_774 -> "37.77"
      [] s = Lat37_7751 -> "37.78"
      [] s = Lat37_7651 -> "37.77"
      [] s = Lat37_775 -> "37.77"
      [] s = Lng122_4194 -> "-122.42"
      [] s = LatMinus0_004 -> "-0.0"
      [] s = Lng0_004 -> "0.0"

C6_KeyIsTextOfRoundedFloat ==
    \A r \in Reqs :
        (Is(r, "climate") /\ Did(r, "lookup")) =>
            reqs[r].key = "climate:" \o KeyComponent(reqs[r].input.lat)
                          \o ":" \o KeyComponent(reqs[r].input.lng)

\* Latitudes 37.774 and 37.7651 were both looked up under climate:37.77:...
C6_Witness ==
    \E r1, r2 \in Reqs :
        /\ Is(r1, "climate") /\ Did(r1, "lookup")
        /\ Is(r2, "climate") /\ Did(r2, "lookup")
        /\ reqs[r1].input.lat = Lat37_774
        /\ reqs[r2].input.lat = Lat37_7651
        /\ reqs[r1].key = "climate:37.77:-122.42"
        /\ reqs[r2].key = reqs[r1].key

(***************************************************************************)
(* C7.  Canopy: a quadkey is accepted if and only if it is non-empty and   *)
(* made of the characters 0, 1, 2, 3.  A rejected quadkey is answered 400  *)
(* with an `error` body by a request that did nothing but validate: no     *)
(* local tile check, no cache access, no upstream call.                    *)
(***************************************************************************)
C7_QuadkeyValidation ==
    \A r \in Reqs :
        Is(r, "canopy") =>
            LET q == reqs[r].input
                wellFormed == Len(q) > 0
                              /\ {q[i] : i \in 1..Len(q)} \subseteq {"0", "1", "2", "3"}
                rejected == Done(r) /\ reqs[r].status = 400
            IN  /\ wellFormed <=> ~rejected
                /\ wellFormed => Did(r, "local")
                /\ rejected => /\ HasError(r)
                               /\ reqs[r].trace = <<"validate">>
                               /\ reqs[r].key = ""
                               /\ reqs[r].up = NoCall
                               /\ reqs[r].setNo = 0

\* 012a was rejected and 0123 was accepted.
C7_Witness ==
    \E r1, r2 \in Reqs :
        /\ Is(r1, "canopy") /\ reqs[r1].input = <<"0", "1", "2", "a">>
        /\ reqs[r1].status = 400
        /\ Is(r2, "canopy") /\ reqs[r2].input = <<"0", "1", "2", "3">>
        /\ Did(r2, "lookup")

(***************************************************************************)
(* C8.  Concurrent misses: two requests for the same key can both miss,    *)
(* both call upstream and both write.  Once the writers of a key are done, *)
(* the entry holds exactly the value of the write that happened last (so   *)
(* one of the fetched values, whole), and it is there as long as no TTL    *)
(* can have run out.                                                       *)
(***************************************************************************)
Writers(k) == {r \in Reqs : reqs[r].setNo > 0 /\ reqs[r].key = k}

LastWriter(k) == CHOOSE r \in Writers(k) : \A o \in Writers(k) : reqs[o].setNo <= reqs[r].setNo

C8_LastWriterWins ==
    \A r \in Reqs :
        reqs[r].setNo > 0 =>
            LET k == reqs[r].key IN
            /\ now < CACHE_TTL_OVERPASS => k \in DOMAIN cache
            /\ k \in DOMAIN cache =>
                  /\ cache[k].value = reqs[LastWriter(k)].data
                  /\ cache[k].value \in {reqs[w].data : w \in Writers(k)}

\* Two requests for one key both missed, both fetched, both wrote; they
\* fetched different values and the entry holds the later write.
C8_Witness ==
    \E r1, r2 \in Reqs :
        /\ r1 # r2
        /\ reqs[r1].kind \in {"overpass", "climate"}
        /\ reqs[r1].key = reqs[r2].key
        /\ Done(r1) /\ Done(r2)
        /\ reqs[r1].trace = <<"validate", "lookup", "upstream", "set">>
        /\ reqs[r2].trace = <<"validate", "lookup", "upstream", "set">>
        /\ reqs[r1].cached = PyNone /\ reqs[r2].cached = PyNone
        /\ reqs[r1].setNo < reqs[r2].setNo
        /\ reqs[r1].data # reqs[r2].data
        /\ cache[reqs[r1].key].value = reqs[r2].data

(***************************************************************************)
(* C9.  With an upstream that is deterministic per logical request: an     *)
(* entry that is present and unexpired under the key of a request equals   *)
(* what a fresh upstream fetch for that request returns.                   *)
(***************************************************************************)
\* What a fresh fetch returns for the logical request of r.
FreshFetch(r) ==
    CASE reqs[r].kind = "overpass" ->
            [len |-> 2, ver |-> reqs[r].input.query]
      [] reqs[r].kind = "climate" ->
            [len |-> 2, ver |-> "latitude=" \o KeyComponent(reqs[r].input.lat)
                                \o "&longitude=" \o KeyComponent(reqs[r].input.lng)]
      [] reqs[r].kind = "canopy" ->
            OriginPayload("canopy", Join(reqs[r].input) \o ".tif")

C9_EntryEqualsFreshFetch ==
    \A r \in Reqs :
        (Did(r, "lookup") /\ reqs[r].key \in DOMAIN cache
         /\ cache[reqs[r].key].expires > now)
        => cache[reqs[r].key].value = FreshFetch(r)

\* One request stored its fetch and a later one was answered from the entry.
C9_Witness ==
    \E r1, r2 \in Reqs :
        /\ r1 # r2
        /\ Did(r1, "set") /\ Done(r2) /\ FoundEntry(r2) /\ ~Did(r2, "upstream")
        /\ reqs[r1].key = reqs[r2].key
        /\ reqs[r1].input # reqs[r2].input
        /\ reqs[r2].key \in DOMAIN cache
        /\ reqs[r2].body = cache[reqs[r2].key].value

(***************************************************************************)
(* C10.  Every handler validates first: an Overpass request with a missing *)
(* or empty query, a Climate request with lat or lng missing or not a      *)
(* float, a Canopy request with an invalid quadkey is answered 400 with an *)
(* `error` body having done nothing else.  The steps come in the order     *)
(* validate, (local tile), cache lookup, upstream, cache write; a cache    *)
(* write follows a successful upstream fetch of the same request.          *)
(***************************************************************************)
FloatLiterals ==
    {Lat37_774, Lat37_7751, Lat37_7651, Lat37_775, Lng122_4194,
     LatMinus0_004, Lng0_004}

BadInput(r) ==
    LET i == reqs[r].input IN
    CASE reqs[r].kind = "overpass" ->
            IF "query" \in DOMAIN i THEN i.query = "" ELSE TRUE
      [] reqs[r].kind = "climate" ->
            IF {"lat", "lng"} \subseteq DOMAIN i
            THEN i.lat \notin FloatLiterals \/ i.lng \notin FloatLiterals
            ELSE TRUE
      [] reqs[r].kind = "canopy" ->
            i \notin {<<"0", "1">>, <<"0", "1", "2", "3">>}

StepOrders ==
    {<<"validate">>,
     <<"validate", "lookup">>,
     <<"validate", "lookup", "upstream">>,
     <<"validate", "lookup", "upstream", "set">>,
     <<"validate", "local">>,
     <<"validate", "local", "lookup">>,
     <<"validate", "local", "lookup", "upstream">>,
     <<"validate", "local", "lookup", "upstream", "set">>}

C10_ValidateFirstStoreAfterFetch ==
    \A r \in Reqs :
        reqs[r].pc # "idle" =>
            /\ reqs[r].trace \in StepOrders
            /\ BadInput(r) => /\ Done(r)
                              /\ reqs[r].status = 400
                              /\ HasError(r)
                              /\ reqs[r].trace = <<"validate">>
            /\ ~BadInput(r) => reqs[r].status # 400
            /\ Did(r, "set") => /\ reqs[r].up.type = "response"
                                /\ reqs[r].up.status = 200
                                /\ reqs[r].data = reqs[r].up.content
                                /\ reqs[r].body = reqs[r].data

\* A request with an empty query was refused and another one stored its
\* fetch.
C10_Witness ==
    \E r1, r2 \in Reqs :
        /\ Is(r1, "overpass") /\ reqs[r1].input = [query |-> ""]
        /\ reqs[r1].status = 400
        /\ Is(r2, "climate") /\ Did(r2, "set") /\ Done(r2)

(***************************************************************************)
(* C11.  Lifecycle of a cache entry.  An entry is written only by the      *)
(* store step of a request that missed and fetched upstream, with an       *)
(* expiry fixed at the write: 7 days later for Overpass, 30 days for       *)
(* Climate, 365 days for Canopy.  An entry disappears only when time       *)
(* passes and its expiry is reached.  The first step of a request          *)
(* (validation, lookup, and the answer when it is a hit) leaves the store  *)
(* as it is, expiry times included.                                        *)
(***************************************************************************)
WrittenKeys ==
    {k \in DOMAIN cache' : IF k \in DOMAIN cache THEN cache'[k] # cache[k] ELSE TRUE}

RemovedKeys == DOMAIN cache \ DOMAIN cache'

SecondsToLive(kind) ==
    CASE kind = "overpass" -> 7 * 24 * 60 * 60
      [] kind = "climate" -> 30 * 24 * 60 * 60
      [] kind = "canopy" -> 365 * 24 * 60 * 60

C11_Step ==
    /\ \A k \in RemovedKeys : now' > now /\ cache[k].expires <= now'
    /\ \A k \in WrittenKeys :
          \E r \in Reqs :
              /\ reqs[r].pc = "store" /\ reqs'[r].pc = "done"
              /\ reqs[r].key = k
              /\ reqs[r].status = 0
              /\ Did(r, "lookup") /\ Did(r, "upstream")
              /\ cache'[k] = [value |-> reqs[r].data,
                              expires |-> now + SecondsToLive(reqs[r].kind)]
    /\ \A r \in Reqs :
          (reqs[r].pc = "idle" /\ reqs'[r].pc # "idle") => cache' = cache

C11_EntriesWrittenOnMissRemovedByExpiry == [][C11_Step]_vars

\* In the last second of the 7-day window an Overpass request has been
\* answered from the entry another request stored at the start, and the
\* entry still expires 7 days after that write.
C11_Witness ==
    \E r1, r2 \in Reqs :
        /\ r1 # r2
        /\ now = CACHE_TTL_OVERPASS - 1
        /\ Is(r1, "overpass") /\ Did(r1, "set")
        /\ Is(r2, "overpass") /\ Done(r2)
        /\ reqs[r2].key = reqs[r1].key
        /\ reqs[r2].trace = <<"validate", "lookup">>
        /\ reqs[r2].status = 200
        /\ reqs[r2].key \in DOMAIN cache
        /\ cache[reqs[r2].key] = [value |-> reqs[r2].body,
                                  expires |-> CACHE_TTL_OVERPASS]

(***************************************************************************)
(* C12.  No negative caching.  On each of the three proxies, the step in   *)
(* which the upstream call of a request fails (timeout, non-2xx status     *)
(* with canopy's 404 among them, or any other fault) ends the request with *)
(* an error response, leaves the cache store exactly as it was and leaves  *)
(* every other request as it was; a request whose upstream call failed     *)
(* never wrote to the cache.                                               *)
(***************************************************************************)
\* The upstream result `up` is a failure for a proxy of this kind.
UpstreamFailed(kind, up) ==
    \/ up.type \in {"timeout", "error"}
    \/ /\ up.type = "response"
       /\ \/ up.status < 200
          \/ up.status > 299
          \/ kind \in {"overpass", "climate"} /\ ~up.json

C12_Step ==
    \A r \in Reqs :
        (/\ reqs[r].pc = "fetch"
         /\ reqs'[r].pc # "fetch"
         /\ UpstreamFailed(reqs[r].kind, reqs'[r].up))
        => /\ cache' = cache
           /\ nsets' = nsets
           /\ reqs'[r].pc = "done"
           /\ reqs'[r].status \in {404, 500, 502, 504}
           /\ "error" \in DOMAIN reqs'[r].body
           /\ reqs'[r].setNo = 0
           /\ \A o \in Reqs \ {r} : reqs'[o] = reqs[o]

C12_NeverWrote ==
    \A r \in Reqs :
        (Did(r, "upstream") /\ UpstreamFailed(reqs[r].kind, reqs[r].up))
        => Done(r) /\ ~Did(r, "set") /\ reqs[r].setNo = 0

C12_FailureLeavesCacheUnchanged == [](C12_NeverWrote) /\ [][C12_Step]_vars

\* The upstream call of a request failed, the store was left without an
\* entry for its key, and the next request for the same key missed and
\* called upstream again.
C12_Witness ==
    \E r1, r2 \in Reqs :
        /\ r1 < r2
        /\ Done(r1) /\ Did(r1, "upstream")
        /\ UpstreamFailed(reqs[r1].kind, reqs[r1].up)
        /\ reqs[r1].up.type = "response" /\ reqs[r1].up.status = 404
        /\ reqs[r1].kind = "canopy"
        /\ reqs[r2].kind = reqs[r1].kind /\ reqs[r2].key = reqs[r1].key
        /\ reqs[r2].cached = PyNone
        /\ Did(r2, "upstream")
        /\ nsets = 0 /\ cache = <<>>

====
